---- MODULE Spec2Model ----
(***************************************************************************)
(* Model of the Voice I/O Controller (frontend/voice.js) together with the *)
(* platform objects it drives: the speech-recognition service, the speech- *)
(* synthesis engine, the audio element used for remote TTS and the network *)
(* fetch of the TTS proxy.                                                 *)
(*                                                                         *)
(* JavaScript strings are TLA+ strings; a character is a string of length  *)
(* one, obtained with SubSeq.  An optional value (null / undefined) is a   *)
(* sequence of length 0, a present one a sequence of length 1.  Pitch and  *)
(* rate are in hundredths (0.85 is 85).                                    *)
(***************************************************************************)
EXTENDS Integers, Sequences, FiniteSets, TLC

(***************************************************************************)
(* String helpers (String.prototype.startsWith / includes / split /        *)
(* toLowerCase).                                                           *)
(***************************************************************************)
Min(S) == CHOOSE m \in S : \A n \in S : m <= n

CharAt(s, i) == SubSeq(s, i, i)

StartsWith(s, p) == Len(p) <= Len(s) /\ SubSeq(s, 1, Len(p)) = p

StartsAt(s, i, p) == i + Len(p) - 1 <= Len(s) /\ SubSeq(s, i, i + Len(p) - 1) = p

Includes(s, k) == \E i \in 1..(Len(s) + 1) : StartsAt(s, i, k)

\* s.split('-')[0]
PrimarySubtag(s) ==
    LET dashes == {i \in 1..Len(s) : CharAt(s, i) = "-"}
    IN  IF dashes = {} THEN s ELSE SubSeq(s, 1, Min(dashes) - 1)

UpperLetters == "ABCDEFGHIJKLMNOPQRSTUVWXYZ"
LowerLetters == "abcdefghijklmnopqrstuvwxyz"

LowerChar(c) ==
    LET idx == {i \in 1..26 : CharAt(UpperLetters, i) = c}
    IN  IF idx = {} THEN c ELSE CharAt(LowerLetters, Min(idx))

RECURSIVE ToLowerCase(_)
ToLowerCase(s) ==
    IF Len(s) = 0 THEN s
    ELSE LowerChar(CharAt(s, 1)) \o ToLowerCase(SubSeq(s, 2, Len(s)))

(***************************************************************************)
(* Array helpers (Array.prototype.find / some / filter) and ||.            *)
(***************************************************************************)
\* arr.find(callback), idx being the indexes of the elements the callback
\* accepts
Find(arr, idx) == IF idx = {} THEN << >> ELSE << arr[Min(idx)] >>

\* arr.some(callback), idx as above
Some(arr, idx) == idx # {}

OrElse(a, b) == IF a # << >> THEN a ELSE b

(***************************************************************************)
(* Tables of setVoice.                                                     *)
(***************************************************************************)
langMapKeys ==
    {"en", "es", "hi", "zh-CN", "fr", "de", "ja", "ko", "pt", "ru", "it", "ar",
     "nl", "tr", "pl", "id", "ta", "bn", "te", "kn", "ml", "gu", "mr", "pa"}

langMap ==
    [k \in langMapKeys |->
        CASE k = "en" -> "en-US" [] k = "es" -> "es-ES" [] k = "hi" -> "hi-IN"
          [] k = "zh-CN" -> "zh-CN" [] k = "fr" -> "fr-FR" [] k = "de" -> "de-DE"
          [] k = "ja" -> "ja-JP" [] k = "ko" -> "ko-KR" [] k = "pt" -> "pt-BR"
          [] k = "ru" -> "ru-RU" [] k = "it" -> "it-IT" [] k = "ar" -> "ar-SA"
          [] k = "nl" -> "nl-NL" [] k = "tr" -> "tr-TR" [] k = "pl" -> "pl-PL"
          [] k = "id" -> "id-ID" [] k = "ta" -> "ta-IN" [] k = "bn" -> "bn-IN"
          [] k = "te" -> "te-IN" [] k = "kn" -> "kn-IN" [] k = "ml" -> "ml-IN"
          [] k = "gu" -> "gu-IN" [] k = "mr" -> "mr-IN" [] k = "pa" -> "pa-IN"]

\* langMap is an object literal: a lookup of one of these keys finds a member
\* inherited from Object.prototype, which is truthy and is not a string.
objectPrototypeKeys ==
    {"constructor", "toString", "valueOf", "hasOwnProperty", "isPrototypeOf",
     "propertyIsEnumerable", "toLocaleString", "__proto__",
     "__defineGetter__", "__defineSetter__", "__lookupGetter__", "__lookupSetter__"}

priorityKeywords == <<"Natural", "Google", "Microsoft", "Premium", "Enhanced">>

maleKeywords ==
    <<"Male", "David", "Mark", "Guy", "Daniel",
      "Pablo", "Raul", "Stefan", "Hemant", "Ravi",
      "Paul", "Mathieu", "Jerome",
      "Ichiro", "Haruto", "Takumi",
      "Tae-Theo", "Min-Ho",
      "Ivan", "Pavel",
      "Ahmet", "Mehmet",
      "Budi",
      "Google US English", "Microsoft Stefan", "Microsoft Ravi", "Microsoft Hemant">>

femaleKeywords ==
    <<"Female", "Zira", "Samantha", "Google UK English Female", "Microsoft Kalpana",
      "Microsoft Heera", "Zira", "Salli", "Huihui", "Yaoyao", "Haruka", "Ayumi">>

NameHas(keywords, v) == \E i \in 1..Len(keywords) : Includes(v.name, keywords[i])


(***************************************************************************)
(* Bounds and input sets.                                                  *)
(***************************************************************************)
MaxSpeak == 2       \* speak() calls in one behaviour
MaxListen == 2      \* startListening() calls in one behaviour
MaxCatalog == 2     \* length of the platform voice lists of SpecVoice

Voice(n, l) == [name |-> n, lang |-> l]

VoicePool ==
    { Voice("Samantha", "en-US"),
      Voice("Microsoft Zira", "en-US"),
      Voice("Daniel", "en-GB"),
      Voice("Google US English", "en-US"),
      Voice("Alex", "en-US"),
      Voice("Google français", "fr-FR") }

RECURSIVE SeqsUpTo(_, _)
SeqsUpTo(S, n) ==
    IF n = 0 THEN { << >> }
    ELSE LET shorter == SeqsUpTo(S, n - 1)
         IN  shorter \cup { Append(q, e) : q \in shorter, e \in S }

\* the voice lists the platform starts with in SpecVoice
VoiceCatalogs == SeqsUpTo(VoicePool, MaxCatalog)

\* the voice lists the platform starts with in Spec, and changes to
EnglishCatalog == << Voice("Google UK English Female", "en-GB"), Voice("Daniel", "en-GB") >>
TamilCatalog == << Voice("Microsoft Valluvar", "ta-IN"), Voice("Google français", "fr-FR") >>
SpeakCatalogs == { EnglishCatalog, TamilCatalog }

Genders == {"male", "female"}

\* the language arguments of setVoice
Languages == {"en", "fr", "ta", "auto", "en-GB", "xx", "constructor"}

\* navigator.language
NavigatorLanguages == {"fr-FR", ""}

(***************************************************************************)
(* State.                                                                  *)
(***************************************************************************)
VARIABLES
    \* platform
    hasRecognition,   \* window.SpeechRecognition or webkitSpeechRecognition exists
    hasSynthesis,     \* window.speechSynthesis exists
    navLang,          \* navigator.language
    platVoices,       \* speechSynthesis.getVoices()
    voicesHook,       \* speechSynthesis.onvoiceschanged is the controller's handler
    recState,         \* recognition service: "idle", "active", "stopping", "failed"
    recOwner,         \* startListening call that started the platform session
    recCb,            \* startListening call whose closures are recognition.on*
    engQueue,         \* speechSynthesis utterance queue
    engSpeaking,      \* the head of engQueue has started
    audioSrc,         \* audio.src
    audioPaused,      \* audio.paused
    audioLoad,        \* "empty", "loading", "ready", "failed"
    audioTime,        \* audio.currentTime: "start" or "end"
    audioHandler,     \* speak call whose closures are audio.onended / onerror
    playPromises,     \* unsettled or rejected promises of audio.play()
    \* controller fields
    constructed,      \* new VoiceController() returned
    isListening,
    selectedVoice,
    voices,
    isSpeakingFlag,
    currentLang,
    preferredGender,
    preferredLang,
    defaultPitch,     \* 0 is undefined
    isGoogleSpeaking,
    \* calls and callbacks
    nSpeak,           \* speak() calls so far; the latest has this id
    calls,            \* the async frames of the speak() calls
    onStartCount,     \* invocations of options.onStart per speak call
    onEndCount,       \* invocations of options.onEnd per speak call
    halted,           \* stopSpeaking() returned and no speak() since
    nListen,          \* startListening() calls so far
    platStarts,       \* recognition.start() calls so far
    cbCall,           \* callback invoked by the last recognition event
    isRecording,      \* the chat UI's recording state (astra_script.js)
    last              \* the last operation or event

ctrlVars == <<constructed, isListening, selectedVoice, voices, isSpeakingFlag,
              currentLang, preferredGender, preferredLang, defaultPitch,
              isGoogleSpeaking>>
voiceVars == <<selectedVoice, currentLang, preferredGender, preferredLang, defaultPitch>>
platVars == <<hasRecognition, hasSynthesis, navLang>>
uiVars == <<isRecording>>
recVars == <<recState, recOwner, recCb, isListening, nListen, platStarts, cbCall>>
engVars == <<engQueue, engSpeaking>>
audioVars == <<audioSrc, audioPaused, audioLoad, audioTime, audioHandler, playPromises>>
speakVars == <<nSpeak, calls, onStartCount, onEndCount, halted, isGoogleSpeaking>>

vars == <<hasRecognition, hasSynthesis, navLang, platVoices, voicesHook,
          recState, recOwner, recCb, engQueue, engSpeaking,
          audioSrc, audioPaused, audioLoad, audioTime, audioHandler, playPromises,
          constructed, isListening, selectedVoice, voices, isSpeakingFlag,
          currentLang, preferredGender, preferredLang, defaultPitch, isGoogleSpeaking,
          nSpeak, calls, onStartCount, onEndCount, halted,
          nListen, platStarts, cbCall, isRecording, last>>

\* op: the operation or event; id: its call; arg: the platform's event datum;
\* threw: the operation raised an error to its caller
Op(name, id, arg, threw) == [op |-> name, id |-> id, arg |-> arg, threw |-> threw]

(***************************************************************************)
(* setVoice(gender, language), as a function of the catalog.               *)
(***************************************************************************)
\* a value of langMap[language] that is not a string
NotAString == "[object]"

NormalizeLang(language, nav) ==
    LET auto == IF language = "auto"
                THEN (IF nav # "" THEN nav ELSE "en-US")
                ELSE language
    IN  IF language \in langMapKeys THEN langMap[language]
        ELSE IF language \in objectPrototypeKeys THEN NotAString
        ELSE auto

MatchesLang(v, langCode) == StartsWith(v.lang, PrimarySubtag(langCode))

\* langCode.split throws a TypeError when the filter callback runs on a
\* langCode that is not a string
SetVoiceThrows(vs, language, nav) ==
    NormalizeLang(language, nav) = NotAString /\ Len(vs) > 0

\* the keyword tests of every voice of the model, evaluated once
KnownVoices == VoicePool \cup UNION { {c[i] : i \in 1..Len(c)} : c \in SpeakCatalogs }

NameClass ==
    [v \in KnownVoices |->
        [female |-> NameHas(femaleKeywords, v),
         male |-> NameHas(maleKeywords, v),
         priority |-> NameHas(priorityKeywords, v)]]

IsFemaleName(v) == NameClass[v].female
IsMaleName(v) == NameClass[v].male
IsPriorityName(v) == NameClass[v].priority

\* BestVoice choosing among all the catalog voices, not among those of the
\* language
BestVoiceUnfiltered(vs, gender, langCode) ==
    LET filtered == vs
        FemalePriority(v) == IsFemaleName(v) /\ IsPriorityName(v)
        MalePriority(v) == IsMaleName(v) /\ IsPriorityName(v)
        NotFemale(v) == ~IsFemaleName(v)
    IN  IF Len(filtered) > 0
        THEN IF gender = "female"
             THEN OrElse(Find(filtered, {i \in DOMAIN filtered : FemalePriority(filtered[i])}),
                  OrElse(Find(filtered, {i \in DOMAIN filtered : IsFemaleName(filtered[i])}),
                         Find(filtered, DOMAIN filtered)))
             ELSE OrElse(Find(filtered, {i \in DOMAIN filtered : MalePriority(filtered[i])}),
                  OrElse(Find(filtered, {i \in DOMAIN filtered : IsMaleName(filtered[i])}),
                  OrElse(Find(filtered, {i \in DOMAIN filtered : NotFemale(filtered[i])}),
                         Find(filtered, DOMAIN filtered))))
        ELSE << >>

\* BestVoice without the male-only "not explicitly female" step
BestVoiceNoNotFemaleStep(vs, gender, langCode) ==
    LET InLang(v) == MatchesLang(v, langCode)
        filtered == SelectSeq(vs, InLang)
        FemalePriority(v) == IsFemaleName(v) /\ IsPriorityName(v)
        MalePriority(v) == IsMaleName(v) /\ IsPriorityName(v)
    IN  IF Len(filtered) > 0
        THEN IF gender = "female"
             THEN OrElse(Find(filtered, {i \in DOMAIN filtered : FemalePriority(filtered[i])}),
                  OrElse(Find(filtered, {i \in DOMAIN filtered : IsFemaleName(filtered[i])}),
                         Find(filtered, DOMAIN filtered)))
             ELSE OrElse(Find(filtered, {i \in DOMAIN filtered : MalePriority(filtered[i])}),
                  OrElse(Find(filtered, {i \in DOMAIN filtered : IsMaleName(filtered[i])}),
                         Find(filtered, DOMAIN filtered)))
        ELSE << >>

BestVoice(vs, gender, langCode) ==
    LET InLang(v) == MatchesLang(v, langCode)
        filtered == SelectSeq(vs, InLang)
        FemalePriority(v) == IsFemaleName(v) /\ IsPriorityName(v)
        MalePriority(v) == IsMaleName(v) /\ IsPriorityName(v)
        NotFemale(v) == ~IsFemaleName(v)
    IN  IF Len(filtered) > 0
        THEN IF gender = "female"
             THEN OrElse(Find(filtered, {i \in DOMAIN filtered : FemalePriority(filtered[i])}),
                  OrElse(Find(filtered, {i \in DOMAIN filtered : IsFemaleName(filtered[i])}),
                         Find(filtered, DOMAIN filtered)))
             ELSE OrElse(Find(filtered, {i \in DOMAIN filtered : MalePriority(filtered[i])}),
                  OrElse(Find(filtered, {i \in DOMAIN filtered : IsMaleName(filtered[i])}),
                  OrElse(Find(filtered, {i \in DOMAIN filtered : NotFemale(filtered[i])}),
                         Find(filtered, DOMAIN filtered))))
        ELSE << >>

DefaultPitchOf(gender) == IF gender = "male" THEN 85 ELSE 115

\* the fields setVoice assigns
SetVoiceFields(vs, gender, language, nav) ==
    LET langCode == NormalizeLang(language, nav)
    IN  [selectedVoice |-> BestVoice(vs, gender, langCode),
         currentLang |-> langCode,
         preferredGender |-> gender,
         preferredLang |-> language,
         defaultPitch |-> DefaultPitchOf(gender)]


(***************************************************************************)
(* new VoiceController(): the constructor, init() and the first            *)
(* loadVoices().  The constructor throws when recognition exists and       *)
(* window.speechSynthesis does not (getVoices of undefined).               *)
(***************************************************************************)
NoCallback == [cb |-> 0, kind |-> "none", arg |-> "", session |-> 0]

NoCall == [pc |-> "none", lang |-> "", input |-> "", text |-> "", onStart |-> FALSE,
           onEnd |-> FALSE,
           pitch |-> 0, rate |-> 0]

InitWith(catalogs, navs) ==
    /\ hasRecognition \in BOOLEAN
    /\ hasSynthesis \in BOOLEAN
    /\ navLang \in navs
    /\ platVoices \in (IF hasSynthesis THEN catalogs ELSE { << >> })
    /\ constructed = (hasRecognition => hasSynthesis)
    /\ voicesHook = (hasRecognition /\ hasSynthesis)
    /\ voices = IF hasRecognition /\ hasSynthesis THEN platVoices ELSE << >>
    /\ LET f == SetVoiceFields(voices, "female", "en-US", navLang)
           loaded == Len(voices) > 0
       IN  /\ selectedVoice = IF loaded THEN f.selectedVoice ELSE << >>
           /\ currentLang = "en-US"
           /\ preferredGender = "female"
           /\ preferredLang = "en-US"
           /\ defaultPitch = IF loaded THEN f.defaultPitch ELSE 0
    /\ isListening = FALSE
    /\ isSpeakingFlag = FALSE
    /\ isGoogleSpeaking = FALSE
    /\ recState = "idle"
    /\ recOwner = 0
    /\ recCb = 0
    /\ engQueue = << >>
    /\ engSpeaking = FALSE
    /\ audioSrc = ""
    /\ audioPaused = TRUE
    /\ audioLoad = "empty"
    /\ audioTime = "start"
    /\ audioHandler = 0
    /\ playPromises = {}
    /\ nSpeak = 0
    /\ calls = [k \in 1..MaxSpeak |-> NoCall]
    /\ onStartCount = [k \in 1..MaxSpeak |-> 0]
    /\ onEndCount = [k \in 1..MaxSpeak |-> 0]
    /\ halted = FALSE
    /\ nListen = 0
    /\ platStarts = 0
    /\ cbCall = NoCallback
    /\ isRecording = FALSE
    /\ last = Op("new", 0, "", ~constructed)

\* Without recognition the controller never reads the platform's voice list
\* (init returns at voice.js 26), so one list stands for all.
Init ==
    /\ InitWith(SpeakCatalogs, {"fr-FR"})
    /\ (hasSynthesis /\ ~hasRecognition) => platVoices = EnglishCatalog

InitVoice == InitWith(VoiceCatalogs, NavigatorLanguages)

(***************************************************************************)
(* setVoice(gender, language) called by the application.                   *)
(***************************************************************************)
\* the arguments of a setVoice call, as last records them
SetVoiceArgs(gender, language) == gender \o " " \o language

\* setVoice normalizing the language of the call before (this.preferredLang)
\* in place of its argument
SetVoiceStaleLanguage(gender, language) ==
    /\ constructed
    /\ IF SetVoiceThrows(voices, language, navLang)
       THEN /\ UNCHANGED voiceVars
            /\ last' = Op("setVoice", 0, SetVoiceArgs(gender, language), TRUE)
       ELSE LET f == SetVoiceFields(voices, gender, preferredLang, navLang)
            IN  /\ selectedVoice' = f.selectedVoice
                /\ currentLang' = f.currentLang
                /\ preferredGender' = f.preferredGender
                /\ preferredLang' = language
                /\ defaultPitch' = f.defaultPitch
                /\ last' = Op("setVoice", 0, SetVoiceArgs(gender, language), FALSE)
    /\ UNCHANGED <<platVars, uiVars, platVoices, voicesHook, recVars, engVars, audioVars,
                   constructed, voices, isSpeakingFlag, speakVars>>

SetVoice(gender, language) ==
    /\ constructed
    /\ IF SetVoiceThrows(voices, language, navLang)
       THEN /\ UNCHANGED voiceVars
            /\ last' = Op("setVoice", 0, SetVoiceArgs(gender, language), TRUE)
       ELSE LET f == SetVoiceFields(voices, gender, language, navLang)
            IN  /\ selectedVoice' = f.selectedVoice
                /\ currentLang' = f.currentLang
                /\ preferredGender' = f.preferredGender
                /\ preferredLang' = f.preferredLang
                /\ defaultPitch' = f.defaultPitch
                /\ last' = Op("setVoice", 0, SetVoiceArgs(gender, language), FALSE)
    /\ UNCHANGED <<platVars, uiVars, platVoices, voicesHook, recVars, engVars, audioVars,
                   constructed, voices, isSpeakingFlag, speakVars>>

(***************************************************************************)
(* The platform sets its voice list and fires voiceschanged; the           *)
(* handler installed by init() runs loadVoices().                          *)
(***************************************************************************)
VoicesChanged(list) ==
    /\ constructed
    /\ hasSynthesis
    /\ platVoices' = list
    /\ IF voicesHook
       THEN /\ voices' = list
            /\ IF Len(list) > 0 /\ ~SetVoiceThrows(list, preferredLang, navLang)
               THEN LET f == SetVoiceFields(list, preferredGender, preferredLang, navLang)
                    IN  /\ selectedVoice' = f.selectedVoice
                        /\ currentLang' = f.currentLang
                        /\ preferredGender' = f.preferredGender
                        /\ preferredLang' = f.preferredLang
                        /\ defaultPitch' = f.defaultPitch
               ELSE UNCHANGED voiceVars
            /\ last' = Op("voiceschanged", 0, "",
                          Len(list) > 0 /\ SetVoiceThrows(list, preferredLang, navLang))
       ELSE /\ UNCHANGED <<voices, voiceVars>>
            /\ last' = Op("voiceschanged", 0, "", FALSE)
    /\ UNCHANGED <<platVars, uiVars, voicesHook, recVars, engVars, audioVars,
                   constructed, isSpeakingFlag, speakVars>>

NextVoice ==
    \/ \E g \in Genders, l \in Languages : SetVoice(g, l)
    \/ \E list \in SpeakCatalogs \cup { << >> } : VoicesChanged(list)

SpecVoice == InitVoice /\ [][NextVoice]_vars


(***************************************************************************)
(* The sanitizer of speak(): the chain of String.prototype.replace calls   *)
(* that builds readableText, and the sentence segmentation.                *)
(***************************************************************************)
WordChars == "ABCDEFGHIJKLMNOPQRSTUVWXYZabcdefghijklmnopqrstuvwxyz0123456789_"

\* The backtick (U+0060) cannot be written inside a TLA+ string; the acute
\* accent (U+00B4), which no text of the model uses otherwise, stands for it.
Backtick == "´"
Fence == "´´´"

IsWordChar(c) == Len(c) = 1 /\ Includes(WordChars, c)      \* \w

IsSpace(c) == c \in {" ", "\n", "\t", "\r"}                \* \s

IsTerminator(c) == c \in {".", "!", "?"}                   \* [.!?]

NotTerminator(c) == ~IsTerminator(c)                       \* [^.!?]

\* the character classes of the patterns at voice.js 271, 277 and 303
InClass(cls, c) ==
    CASE cls = "w" -> IsWordChar(c)
      [] cls = "s" -> IsSpace(c)
      [] cls = "stop" -> IsTerminator(c)
      [] cls = "body" -> NotTerminator(c)

\* the least index j >= from at which pat occurs in s, or 0
IndexFrom(s, pat, from) ==
    LET hits == {j \in from..Len(s) : StartsAt(s, j, pat)}
    IN  IF hits = {} THEN 0 ELSE Min(hits)

\* the end of the longest run of characters in class cls that starts at i
\* (i - 1 when the run is empty)
RunEnd(s, i, cls) ==
    LET others == {j \in i..Len(s) : ~InClass(cls, CharAt(s, j))}
    IN  IF others # {} THEN Min(others) - 1
        ELSE IF i > Len(s) THEN i - 1 ELSE Len(s)

\* /BBB(\w+)?\s*([\s\S]*?)BBB/g -> ' Here is the <lang> code. End of code. ',
\* B being the backtick
RECURSIVE ReplaceFences(_, _)
ReplaceFences(s, i) ==
    IF i > Len(s) THEN ""
    ELSE LET close == IF StartsAt(s, i, Fence) THEN IndexFrom(s, Fence, i + 3) ELSE 0
             langEnd == RunEnd(s, i + 3, "w")
         IN  IF close # 0
             THEN " Here is the " \o SubSeq(s, i + 3, langEnd) \o " code. End of code. "
                  \o ReplaceFences(s, close + 3)
             ELSE CharAt(s, i) \o ReplaceFences(s, i + 1)

\* /d([^d]+)d/g -> before $1 ' ', for the one-character delimiter d
RECURSIVE ReplaceSpans(_, _, _, _)
ReplaceSpans(s, i, d, before) ==
    IF i > Len(s) THEN ""
    ELSE LET close == IF CharAt(s, i) = d THEN IndexFrom(s, d, i + 1) ELSE 0
         IN  IF close >= i + 2
             THEN before \o SubSeq(s, i + 1, close - 1) \o " "
                  \o ReplaceSpans(s, close + 1, d, before)
             ELSE CharAt(s, i) \o ReplaceSpans(s, i + 1, d, before)

\* /\$\$([\s\S]*?)\$\$/g -> ' The formula is: $1 '
RECURSIVE ReplaceBlockMath(_, _)
ReplaceBlockMath(s, i) ==
    IF i > Len(s) THEN ""
    ELSE LET close == IF StartsAt(s, i, "$$") THEN IndexFrom(s, "$$", i + 2) ELSE 0
         IN  IF close # 0
             THEN " The formula is: " \o SubSeq(s, i + 2, close - 1) \o " "
                  \o ReplaceBlockMath(s, close + 2)
             ELSE CharAt(s, i) \o ReplaceBlockMath(s, i + 1)

\* /\[([^\]]+)\]\([^\)]+\)/g -> '$1'
RECURSIVE ReplaceLinks(_, _)
ReplaceLinks(s, i) ==
    IF i > Len(s) THEN ""
    ELSE LET closeLabel == IF CharAt(s, i) = "[" THEN IndexFrom(s, "]", i + 1) ELSE 0
             closeUrl == IF closeLabel >= i + 2 /\ StartsAt(s, closeLabel + 1, "(")
                         THEN IndexFrom(s, ")", closeLabel + 2)
                         ELSE 0
         IN  IF closeUrl >= closeLabel + 3 /\ closeLabel # 0
             THEN SubSeq(s, i + 1, closeLabel - 1) \o ReplaceLinks(s, closeUrl + 1)
             ELSE CharAt(s, i) \o ReplaceLinks(s, i + 1)

\* /[*#_]/g -> ''
RECURSIVE StripMarkers(_)
StripMarkers(s) ==
    IF Len(s) = 0 THEN ""
    ELSE (IF CharAt(s, 1) \in {"*", "#", "_"} THEN "" ELSE CharAt(s, 1))
         \o StripMarkers(SubSeq(s, 2, Len(s)))

\* /\s+/g -> ' '
RECURSIVE CollapseSpaces(_, _)
CollapseSpaces(s, i) ==
    IF i > Len(s) THEN ""
    ELSE IF IsSpace(CharAt(s, i))
         THEN " " \o CollapseSpaces(s, RunEnd(s, i, "s") + 1)
         ELSE CharAt(s, i) \o CollapseSpaces(s, i + 1)

\* String.prototype.trim
Trim(s) ==
    LET solid == {i \in 1..Len(s) : ~IsSpace(CharAt(s, i))}
    IN  IF solid = {} THEN ""
        ELSE SubSeq(s, Min(solid), CHOOSE m \in solid : \A n \in solid : n <= m)

\* the chain of voice.js 270-278 without its first replacement (fenced blocks)
SanitizeNoFences(text) ==
    LET coded == ReplaceSpans(text, 1, Backtick, " code ")
        blockMath == ReplaceBlockMath(coded, 1)
        inlineMath == ReplaceSpans(blockMath, 1, "$", " formula ")
        linked == ReplaceLinks(inlineMath, 1)
        stripped == StripMarkers(linked)
    IN  Trim(CollapseSpaces(stripped, 1))

Sanitize(text) ==
    LET fenced == ReplaceFences(text, 1)
        coded == ReplaceSpans(fenced, 1, Backtick, " code ")
        blockMath == ReplaceBlockMath(coded, 1)
        inlineMath == ReplaceSpans(blockMath, 1, "$", " formula ")
        linked == ReplaceLinks(inlineMath, 1)
        stripped == StripMarkers(linked)
    IN  Trim(CollapseSpaces(stripped, 1))

\* readableText.match(/[^.!?]+[.!?]+|[^.!?]+$/g)
RECURSIVE MatchSentences(_, _)
MatchSentences(s, i) ==
    IF i > Len(s) THEN << >>
    ELSE IF IsTerminator(CharAt(s, i)) THEN MatchSentences(s, i + 1)
    ELSE LET bodyEnd == RunEnd(s, i, "body")
             stop == RunEnd(s, bodyEnd + 1, "stop")
         IN  << SubSeq(s, i, stop) >> \o MatchSentences(s, stop + 1)

\* ... || [readableText]
Sentences(readableText) ==
    LET m == MatchSentences(readableText, 1)
    IN  IF m = << >> THEN << readableText >> ELSE m

(***************************************************************************)
(* speak(text, options): inputs.                                           *)
(***************************************************************************)
Options(l, p, r, cb) == [lang |-> l, pitch |-> p, rate |-> r, onStart |-> cb, onEnd |-> cb]

\* the calls speak(text, options) of the model; lang "" and pitch / rate 0
\* are absent keys
SpeakInputs ==
    { [text |-> "A. B", opt |-> Options("ta", 0, 0, TRUE)],
      [text |-> "Hi.", opt |-> Options("en", 120, 110, TRUE)],
      [text |-> "**", opt |-> Options("", 0, 0, TRUE)] }

\* the speak() calls of SpecDispatch: an override with three sentences, no
\* override, the deny-listed language, and a call without callbacks
DispatchInputs ==
    { [text |-> "One. Two! Three", opt |-> Options("fr", 0, 0, TRUE)],
      [text |-> "Hi.", opt |-> Options("", 0, 0, TRUE)],
      [text |-> "A. B", opt |-> Options("ta", 0, 0, FALSE)] }

\* texts for the sanitizer and the sentence split: fenced blocks with and
\* without a language tag, inline spans, block and inline math, links,
\* markers, nested and unbalanced delimiters, leading and repeated terminators
SanitizeTexts ==
    { "´´´js\nx = 1\n´´´", "´´´\nx\n´´´", "Use ´f()´ now.", "´´´py\na´b\n´´´ and ´c´",
      "´a", "´´", "´$a$´", "$$´a´$$", "[´a´](u)", "´´´a´´´´b´",
      "$$x$$ and $y$", "$a", "**Bold** _it_ # h", "[a](b)", "[a](b", "[[a](b)](c)",
      "!Hi. Yo", "...", "A.  B!? C", "  ", "1.5 is $x$. Ok" }

Texts == { in.text : in \in SpeakInputs \cup DispatchInputs } \cup SanitizeTexts

\* readableText and its sentences for every text of the model, evaluated once
Readable == [t \in Texts |-> Sanitize(t)]
SentencesOf == [r \in { Readable[t] : t \in Texts } |-> Sentences(r)]

(***************************************************************************)
(* The local path of speak() (voice.js 297-327).                           *)
(***************************************************************************)
\* the statement at voice.js 298-301 without the search by language
OpportunisticVoiceFirstEntry(sel, vs, baseLang) ==
    IF sel = << >> /\ Len(vs) > 0 THEN << vs[1] >> ELSE sel

\* this.selectedVoice after the statement at voice.js 298-301
OpportunisticVoice(sel, vs, baseLang) ==
    LET InBase(v) == StartsWith(v.lang, baseLang)
    IN  IF sel = << >> /\ Len(vs) > 0
        THEN OrElse(Find(vs, {i \in DOMAIN vs : InBase(vs[i])}), << vs[1] >>)
        ELSE sel

\* selectedVoice.name.toLowerCase() of every voice of the model, evaluated once
LowerName == [v \in KnownVoices |-> ToLowerCase(v.name)]

\* the condition of the pitch shift (voice.js 312-315)
PitchShifted(gender, sel) ==
    /\ gender = "male"
    /\ sel # << >>
    /\ ~Includes(LowerName[sel[1]], "male")
    /\ ~Includes(LowerName[sel[1]], "david")
    /\ ~Includes(LowerName[sel[1]], "mark")

FirstNonZero(a, b, c) == IF a # 0 THEN a ELSE IF b # 0 THEN b ELSE c

\* the utterance with the callbacks attached whatever the index
UtteranceCallbacksOnEach(k, c, sentence, i, n, sel, gender, dPitch) ==
    [call |-> k,
     text |-> Trim(sentence),
     lang |-> c.lang,
     voice |-> sel,
     pitch |-> IF PitchShifted(gender, sel) THEN 70 ELSE FirstNonZero(c.pitch, dPitch, 100),
     rate |-> IF PitchShifted(gender, sel) THEN 95 ELSE FirstNonZero(c.rate, 90, 90),
     onstart |-> c.onStart,
     onend |-> c.onEnd]

\* the utterance built for sentence number i (from 1) of n
Utterance(k, c, sentence, i, n, sel, gender, dPitch) ==
    [call |-> k,
     text |-> Trim(sentence),
     lang |-> c.lang,
     voice |-> sel,
     pitch |-> IF PitchShifted(gender, sel) THEN 70 ELSE FirstNonZero(c.pitch, dPitch, 100),
     rate |-> IF PitchShifted(gender, sel) THEN 95 ELSE FirstNonZero(c.rate, 90, 90),
     onstart |-> (i = 1 /\ c.onStart),
     onend |-> (i = n /\ c.onEnd)]

RECURSIVE UtterancesFrom(_, _, _, _, _, _, _)
UtterancesFrom(k, c, sentences, i, sel, gender, dPitch) ==
    IF i > Len(sentences) THEN << >>
    ELSE (IF Trim(sentences[i]) = "" THEN << >>
          ELSE << Utterance(k, c, sentences[i], i, Len(sentences), sel, gender, dPitch) >>)
         \o UtterancesFrom(k, c, sentences, i + 1, sel, gender, dPitch)

\* what the forEach of speak call k, with frame c, submits to the engine
LocalUtterances(k, c, sel, gender, dPitch) ==
    UtterancesFrom(k, c, SentencesOf[c.text], 1, sel, gender, dPitch)

\* the remote attempt of call k failed or never was: the statements from
\* voice.js 297 on, run on the queue as it is now
LocalPath(k, c, queue) ==
    LET sel == OpportunisticVoice(selectedVoice, voices, PrimarySubtag(c.lang))
    IN  /\ selectedVoice' = sel
        /\ engQueue' = queue \o LocalUtterances(k, c, sel, preferredGender, defaultPitch)

(***************************************************************************)
(* The audio element.                                                      *)
(***************************************************************************)
SilentSrc == "data:audio/wav;base64,UklGRigAAABXQVZFWm10IBAAAAABAAEARKwAAIhYAQACABAAZGF0YQQAAAAAAA=="

Digits == <<"1", "2", "3", "4", "5", "6", "7", "8", "9">>

\* URL.createObjectURL(blob) of speak call k
BlobUrl(k) == "blob:" \o Digits[k]

PlayPromise(kind, k, orig) == [kind |-> kind, call |-> k, orig |-> orig, st |-> "pending"]

\* pause(), the load algorithm and the end of playback reject the pending
\* promises of play().  The catch handler of speak's promise runs in a later
\* task; the catch handler of unlock's promise only logs (voice.js 161-163),
\* so that promise is dropped at once.
RejectPending(ps) == { [p EXCEPT !.st = "rejected"] : p \in {q \in ps : q.kind = "tts"} }

AudioPlaying == ~audioPaused /\ audioLoad = "ready" /\ audioTime = "start"

RemotePlaying == AudioPlaying /\ StartsWith(audioSrc, "blob:")

LocalActive == engQueue # << >>

(***************************************************************************)
(* stopSpeaking() and speak().                                             *)
(***************************************************************************)
\* the four statements of stopSpeaking, except the flag
HaltAudio ==
    /\ engQueue' = << >>
    /\ engSpeaking' = FALSE
    /\ audioPaused' = TRUE
    /\ playPromises' = IF audioPaused THEN playPromises ELSE RejectPending(playPromises)
    /\ audioTime' = "start"
    /\ UNCHANGED <<audioSrc, audioLoad, audioHandler>>

\* stopSpeaking without its last statement (voice.js 334)
StopSpeakingKeepsFlag ==
    /\ constructed
    /\ halted' = (hasSynthesis \/ halted)
    /\ IF hasSynthesis
       THEN /\ HaltAudio
            /\ UNCHANGED isGoogleSpeaking
            /\ last' = Op("stopSpeaking", 0, "", FALSE)
       ELSE \* this.synthesis.cancel() throws a TypeError
            /\ UNCHANGED <<engVars, audioVars, isGoogleSpeaking>>
            /\ last' = Op("stopSpeaking", 0, "", TRUE)
    /\ UNCHANGED <<platVars, uiVars, platVoices, voicesHook, recVars, constructed, voices,
                   voiceVars, isSpeakingFlag, nSpeak, calls, onStartCount, onEndCount>>

StopSpeaking ==
    /\ constructed
    /\ halted' = (hasSynthesis \/ halted)
    /\ IF hasSynthesis
       THEN /\ HaltAudio
            /\ isGoogleSpeaking' = FALSE
            /\ last' = Op("stopSpeaking", 0, "", FALSE)
       ELSE \* this.synthesis.cancel() throws a TypeError
            /\ UNCHANGED <<engVars, audioVars, isGoogleSpeaking>>
            /\ last' = Op("stopSpeaking", 0, "", TRUE)
    /\ UNCHANGED <<platVars, uiVars, platVoices, voicesHook, recVars, constructed, voices,
                   voiceVars, isSpeakingFlag, nSpeak, calls, onStartCount, onEndCount>>

Frame(pc, lang, text, opt) ==
    [pc |-> pc, lang |-> lang, input |-> text, text |-> Readable[text],
     onStart |-> opt.onStart, onEnd |-> opt.onEnd,
     pitch |-> opt.pitch, rate |-> opt.rate]

\* needsFallback without the Tamil deny-list
NeedsFallbackNoDenyList(baseLang, vs) ==
    LET InBase(v) == StartsWith(v.lang, baseLang)
    IN  ~Some(vs, {i \in DOMAIN vs : InBase(vs[i])})

NeedsFallback(baseLang, vs) ==
    LET InBase(v) == StartsWith(v.lang, baseLang)
    IN  baseLang = "ta" \/ ~Some(vs, {i \in DOMAIN vs : InBase(vs[i])})

Bump(f, k, yes) == IF yes THEN [f EXCEPT ![k] = @ + 1] ELSE f

\* the synchronous part of speak(): up to the await of fetch() on the remote
\* path, to the end on the local path
Speak(text, opt) ==
    LET k == nSpeak + 1
        lang == IF opt.lang # "" THEN opt.lang ELSE currentLang
        c == Frame("done", lang, text, opt)
    IN  /\ constructed
        /\ nSpeak < MaxSpeak
        /\ nSpeak' = k
        /\ halted' = FALSE
        /\ IF ~hasSynthesis \/ lang = NotAString
           THEN \* stopSpeaking() or lang.split throws: the promise of speak() rejects
                /\ IF hasSynthesis
                   THEN HaltAudio /\ isGoogleSpeaking' = FALSE
                   ELSE UNCHANGED <<engVars, audioVars, isGoogleSpeaking>>
                /\ calls' = [calls EXCEPT ![k] = [c EXCEPT !.pc = "threw"]]
                /\ last' = Op("speak", k, opt.lang, TRUE)
                /\ UNCHANGED <<selectedVoice, onStartCount>>
           ELSE /\ audioPaused' = TRUE
                /\ playPromises' = IF audioPaused THEN playPromises
                                   ELSE RejectPending(playPromises)
                /\ audioTime' = "start"
                /\ engSpeaking' = FALSE
                /\ UNCHANGED <<audioSrc, audioLoad, audioHandler>>
                /\ last' = Op("speak", k, opt.lang, FALSE)
                /\ IF NeedsFallback(PrimarySubtag(lang), voices)
                   THEN /\ onStartCount' = Bump(onStartCount, k, opt.onStart)
                        /\ isGoogleSpeaking' = TRUE
                        /\ calls' = [calls EXCEPT ![k] = [c EXCEPT !.pc = "fetch"]]
                        /\ engQueue' = << >>
                        /\ UNCHANGED selectedVoice
                   ELSE /\ isGoogleSpeaking' = FALSE
                        /\ calls' = [calls EXCEPT ![k] = c]
                        /\ LocalPath(k, c, << >>)
                        /\ UNCHANGED onStartCount
        /\ UNCHANGED <<platVars, uiVars, platVoices, voicesHook, recVars, constructed, voices,
                       currentLang, preferredGender, preferredLang, defaultPitch,
                       isSpeakingFlag, onEndCount>>

(***************************************************************************)
(* The continuations of speak() after its awaits, and the events of the    *)
(* audio element and of the synthesis engine.                              *)
(***************************************************************************)
\* last after a continuation or a platform event of the speech machinery
Event == Op("event", 0, "", FALSE)

otherSpeakFrame == <<platVars, uiVars, platVoices, voicesHook, recVars, constructed, voices,
                     currentLang, preferredGender, preferredLang, defaultPitch,
                     isSpeakingFlag, nSpeak, halted>>

\* the catch block of speak() giving up: the call ends, nothing is submitted
FallThroughGivesUp(k, awaiting) ==
    IF calls[k].pc \in awaiting
    THEN /\ calls' = [calls EXCEPT ![k].pc = "done"]
         /\ UNCHANGED <<selectedVoice, engQueue>>
    ELSE UNCHANGED <<calls, selectedVoice, engQueue>>

\* the catch block of speak() (voice.js 292-294) followed by the local path,
\* when the promise call k awaits is rejected; nothing when it is settled
FallThrough(k, awaiting) ==
    IF calls[k].pc \in awaiting
    THEN /\ calls' = [calls EXCEPT ![k].pc = "done"]
         /\ LocalPath(k, calls[k], engQueue)
    ELSE UNCHANGED <<calls, selectedVoice, engQueue>>

\* fetch() resolved with an ok response
FetchOk(k) ==
    /\ calls[k].pc = "fetch"
    /\ calls' = [calls EXCEPT ![k].pc = "blob"]
    /\ last' = Event
    /\ UNCHANGED <<otherSpeakFrame, engVars, audioVars, selectedVoice, isGoogleSpeaking,
                   onStartCount, onEndCount>>

\* fetch() rejected, the response was not ok, or response.blob() rejected:
\* the catch of playGoogleTTS, then the catch of speak
FetchFail(k) ==
    /\ calls[k].pc \in {"fetch", "blob"}
    /\ isGoogleSpeaking' = FALSE
    /\ FallThrough(k, {"fetch", "blob"})
    /\ last' = Event
    /\ UNCHANGED <<otherSpeakFrame, engSpeaking, audioVars, onStartCount, onEndCount>>

\* response.blob() resolved: the executor of the promise at voice.js 179-210;
\* allowed is whether the platform lets this play() start
BlobOk(k, allowed) ==
    /\ calls[k].pc = "blob"
    /\ audioSrc' = BlobUrl(k)
    /\ audioLoad' = "loading"
    /\ audioTime' = "start"
    /\ audioHandler' = k
    /\ IF allowed
       THEN /\ audioPaused' = FALSE
            /\ playPromises' = RejectPending(playPromises) \cup {PlayPromise("tts", k, "")}
            /\ calls' = [calls EXCEPT ![k].pc = "audio"]
            /\ UNCHANGED <<isGoogleSpeaking, selectedVoice, engQueue>>
       ELSE \* play() rejects with NotAllowedError: the catch at 204-209
            /\ audioPaused' = TRUE
            /\ playPromises' = RejectPending(playPromises)
            /\ isGoogleSpeaking' = FALSE
            /\ FallThrough(k, {"blob"})
    /\ last' = Event
    /\ UNCHANGED <<otherSpeakFrame, engSpeaking, onStartCount, onEndCount>>

\* playback starts and the promise of play() resolves; the then of unlock()
\* puts a former src back unless it was empty or a data: URL
PlayResolve(p) ==
    /\ p \in playPromises
    /\ p.st = "pending"
    /\ ~audioPaused
    /\ audioLoad \in {"loading", "ready"}
    /\ playPromises' = playPromises \ {p}
    /\ IF p.kind = "unlock" /\ p.orig # "" /\ ~StartsWith(p.orig, "data:")
       THEN /\ audioSrc' = p.orig
            /\ audioLoad' = "loading"
            /\ audioPaused' = TRUE
       ELSE /\ audioLoad' = "ready"
            /\ UNCHANGED <<audioSrc, audioPaused>>
    /\ last' = Event
    /\ UNCHANGED <<otherSpeakFrame, engVars, audioTime, audioHandler, selectedVoice,
                   isGoogleSpeaking, calls, onStartCount, onEndCount>>

\* the catch handler of a play() promise that pause() or a new src rejected
PlayRejected(p) ==
    /\ p \in playPromises
    /\ p.st = "rejected"
    /\ playPromises' = playPromises \ {p}
    /\ IF p.kind = "tts"
       THEN /\ isGoogleSpeaking' = FALSE
            /\ FallThrough(p.call, {"audio"})
       ELSE UNCHANGED <<isGoogleSpeaking, calls, selectedVoice, engQueue>>
    /\ last' = Event
    /\ UNCHANGED <<otherSpeakFrame, engSpeaking, audioSrc, audioPaused, audioLoad,
                   audioTime, audioHandler, onStartCount, onEndCount>>

\* playback reaches the end of the medium: audio.onended
AudioEnded ==
    /\ AudioPlaying
    /\ audioTime' = "end"
    /\ audioPaused' = TRUE
    /\ playPromises' = RejectPending(playPromises)
    /\ IF audioHandler # 0
       THEN /\ isGoogleSpeaking' = FALSE
            /\ IF calls[audioHandler].pc = "audio"
               THEN /\ calls' = [calls EXCEPT ![audioHandler].pc = "done"]
                    /\ onEndCount' = Bump(onEndCount, audioHandler, calls[audioHandler].onEnd)
               ELSE UNCHANGED <<calls, onEndCount>>
       ELSE UNCHANGED <<isGoogleSpeaking, calls, onEndCount>>
    /\ last' = Event
    /\ UNCHANGED <<otherSpeakFrame, engVars, audioSrc, audioLoad, audioHandler,
                   selectedVoice, onStartCount>>

\* the blob cannot be loaded or decoded: audio.onerror, and the pending
\* play() promise rejects in the same task
AudioError ==
    /\ audioLoad = "loading"
    /\ StartsWith(audioSrc, "blob:")
    /\ audioHandler # 0
    /\ audioLoad' = "failed"
    /\ playPromises' = {p \in playPromises : p.st # "pending"}
    /\ isGoogleSpeaking' = FALSE
    /\ FallThrough(audioHandler, {"audio"})
    /\ last' = Event
    /\ UNCHANGED <<otherSpeakFrame, engSpeaking, audioSrc, audioPaused, audioTime,
                   audioHandler, onStartCount, onEndCount>>

\* unlock() written so that it also resets the remote-speaking flag, as
\* stopSpeaking does
UnlockResetsFlag(allowed) ==
    /\ constructed
    /\ audioSrc' = SilentSrc
    /\ audioLoad' = "loading"
    /\ audioTime' = "start"
    /\ audioPaused' = ~allowed
    /\ playPromises' = RejectPending(playPromises)
                         \cup (IF allowed THEN {PlayPromise("unlock", 0, audioSrc)} ELSE {})
    /\ isGoogleSpeaking' = FALSE
    /\ last' = Op("unlock", 0, "", FALSE)
    /\ UNCHANGED <<otherSpeakFrame, engVars, audioHandler, selectedVoice,
                   calls, onStartCount, onEndCount>>

\* unlock(); allowed is whether the platform lets this play() start
Unlock(allowed) ==
    /\ constructed
    /\ audioSrc' = SilentSrc
    /\ audioLoad' = "loading"
    /\ audioTime' = "start"
    /\ IF allowed
       THEN /\ audioPaused' = FALSE
            /\ playPromises' = RejectPending(playPromises)
                                 \cup {PlayPromise("unlock", 0, audioSrc)}
       ELSE /\ audioPaused' = TRUE
            /\ playPromises' = RejectPending(playPromises)
    /\ last' = Op("unlock", 0, "", FALSE)
    /\ UNCHANGED <<otherSpeakFrame, engVars, audioHandler, selectedVoice,
                   isGoogleSpeaking, calls, onStartCount, onEndCount>>

\* the engine starts the utterance at the head of its queue
EngStart ==
    /\ engQueue # << >>
    /\ ~engSpeaking
    /\ engSpeaking' = TRUE
    /\ onStartCount' = Bump(onStartCount, engQueue[1].call, engQueue[1].onstart)
    /\ last' = Event
    /\ UNCHANGED <<otherSpeakFrame, engQueue, audioVars, selectedVoice, isGoogleSpeaking,
                   calls, onEndCount>>

\* the engine finishes the utterance it is speaking
EngEnd ==
    /\ engQueue # << >>
    /\ engSpeaking
    /\ engSpeaking' = FALSE
    /\ engQueue' = Tail(engQueue)
    /\ onEndCount' = Bump(onEndCount, engQueue[1].call, engQueue[1].onend)
    /\ last' = Event
    /\ UNCHANGED <<otherSpeakFrame, audioVars, selectedVoice, isGoogleSpeaking,
                   calls, onStartCount>>

\* the engine fails on the utterance at the head of its queue (error event)
EngError ==
    /\ engQueue # << >>
    /\ engSpeaking' = FALSE
    /\ engQueue' = Tail(engQueue)
    /\ last' = Event
    /\ UNCHANGED <<otherSpeakFrame, audioVars, selectedVoice, isGoogleSpeaking,
                   calls, onStartCount, onEndCount>>

Next ==
    \/ \E in \in SpeakInputs : Speak(in.text, in.opt)
    \/ StopSpeaking
    \/ \E allowed \in BOOLEAN : Unlock(allowed)
    \/ \E k \in 1..MaxSpeak : FetchOk(k)
    \/ \E k \in 1..MaxSpeak : FetchFail(k)
    \/ \E k \in 1..MaxSpeak, allowed \in BOOLEAN : BlobOk(k, allowed)
    \/ \E p \in playPromises : PlayResolve(p)
    \/ \E p \in playPromises : PlayRejected(p)
    \/ AudioEnded
    \/ AudioError
    \/ EngStart
    \/ EngEnd
    \/ EngError

\* The playback machinery: the voice settings stay as the constructor left
\* them (SpecVoice changes them), the language of a call comes from
\* options.lang.
Spec == Init /\ [][Next]_vars

(***************************************************************************)
(* The dispatch of speak() under changing voice settings: setVoice,        *)
(* catalog refreshes, speak() and the failure of its remote attempt.  The  *)
(* engine holds what it is given until the next speak() cancels it.        *)
(***************************************************************************)
MixedCatalog == << Voice("Daniel", "en-GB"), Voice("Google français", "fr-FR") >>

DispatchCatalogs == { MixedCatalog, TamilCatalog }

\* the setVoice calls of SpecDispatch: a language with a voice in
\* MixedCatalog, and one with no voice in any catalog
DispatchSettings == { <<"female", "fr">>, <<"male", "de">> }

InitDispatch == InitWith(DispatchCatalogs, {"fr-FR"})

NextDispatch ==
    \/ \E gl \in DispatchSettings : SetVoice(gl[1], gl[2])
    \/ \E list \in DispatchCatalogs : VoicesChanged(list)
    \/ \E in \in DispatchInputs : Speak(in.text, in.opt)
    \/ \E k \in 1..MaxSpeak : FetchFail(k)

SpecDispatch == InitDispatch /\ [][NextDispatch]_vars

(***************************************************************************)
(* Recognition session: startListening / stopListening and the events of   *)
(* the platform recognition service.                                       *)
(***************************************************************************)
RecognitionErrors == {"no-speech", "network", "not-allowed"}

\* SpeechRecognitionEvent: results is the list of [isFinal, transcript]
ResultEvents ==
    { [resultIndex |-> 1, results |-> << [isFinal |-> FALSE, transcript |-> "hel"] >>],
      [resultIndex |-> 1, results |-> << [isFinal |-> TRUE, transcript |-> "hello"] >>],
      [resultIndex |-> 2, results |-> << [isFinal |-> TRUE, transcript |-> "hello"],
                                         [isFinal |-> FALSE, transcript |-> " wo"] >>] }

RECURSIVE Transcript(_, _, _)
Transcript(ev, i, final) ==
    IF i > Len(ev.results) THEN ""
    ELSE (IF ev.results[i].isFinal = final THEN ev.results[i].transcript ELSE "")
         \o Transcript(ev, i + 1, final)

\* the arguments onResult receives, joined by "|"
OnResultArgs(ev) ==
    Transcript(ev, ev.resultIndex, TRUE) \o "|" \o Transcript(ev, ev.resultIndex, FALSE)

\* startListening goes on past its first line
ListenGuardNoReentryCheck == hasRecognition

ListenGuard == hasRecognition /\ ~isListening

StartListening ==
    /\ constructed
    /\ nListen < MaxListen
    /\ nListen' = nListen + 1
    /\ cbCall' = NoCallback
    /\ last' = Op("startListening", nListen + 1, "", FALSE)
    /\ IF ListenGuard
       THEN /\ recCb' = nListen + 1
            /\ platStarts' = platStarts + 1
            /\ IF recState = "idle"
               THEN /\ recState' = "active"
                    /\ recOwner' = nListen + 1
                    /\ isListening' = TRUE
               ELSE \* recognition.start() throws InvalidStateError, caught
                    /\ isListening' = FALSE
                    /\ UNCHANGED <<recState, recOwner>>
       ELSE UNCHANGED <<recCb, platStarts, recState, recOwner, isListening>>
    /\ UNCHANGED <<platVars, uiVars, platVoices, voicesHook, engVars, audioVars, constructed,
                   voices, voiceVars, isSpeakingFlag, speakVars>>

StopListening ==
    /\ constructed
    /\ cbCall' = NoCallback
    /\ last' = Op("stopListening", 0, "", FALSE)
    /\ IF hasRecognition /\ isListening
       THEN /\ recState' = IF recState = "active" THEN "stopping" ELSE recState
            /\ isListening' = FALSE
       ELSE UNCHANGED <<recState, isListening>>
    /\ UNCHANGED <<recOwner, recCb, nListen, platStarts>>
    /\ UNCHANGED <<platVars, uiVars, platVoices, voicesHook, engVars, audioVars, constructed,
                   voices, voiceVars, isSpeakingFlag, speakVars>>

\* recognition.onresult
RecResult(ev) ==
    /\ recState \in {"active", "stopping"}
    /\ cbCall' = [cb |-> recCb, kind |-> "result", arg |-> OnResultArgs(ev),
                  session |-> recOwner]
    /\ last' = Op("recResult", recCb, "", FALSE)
    /\ UNCHANGED <<recState, recOwner, recCb, isListening, nListen, platStarts>>
    /\ UNCHANGED <<platVars, uiVars, platVoices, voicesHook, engVars, audioVars, constructed,
                   voices, voiceVars, isSpeakingFlag, speakVars>>

\* recognition.onerror, with event.error = code
RecErrorKeepsListening(code) ==
    /\ recState \in {"active", "stopping"}
    /\ recState' = "failed"
    /\ cbCall' = [cb |-> recCb, kind |-> "error", arg |-> code, session |-> recOwner]
    /\ last' = Op("recError", recCb, code, FALSE)
    /\ UNCHANGED <<recOwner, recCb, nListen, platStarts, isListening>>
    /\ UNCHANGED <<platVars, uiVars, platVoices, voicesHook, engVars, audioVars, constructed,
                   voices, voiceVars, isSpeakingFlag, speakVars>>

RecError(code) ==
    /\ recState \in {"active", "stopping"}
    /\ recState' = "failed"
    /\ isListening' = FALSE
    /\ cbCall' = [cb |-> recCb, kind |-> "error", arg |-> code, session |-> recOwner]
    /\ last' = Op("recError", recCb, code, FALSE)
    /\ UNCHANGED <<recOwner, recCb, nListen, platStarts>>
    /\ UNCHANGED <<platVars, uiVars, platVoices, voicesHook, engVars, audioVars, constructed,
                   voices, voiceVars, isSpeakingFlag, speakVars>>

\* recognition.onend; the service fires end after every session, also after
\* an error
RecEnd ==
    /\ recState \in {"active", "stopping", "failed"}
    /\ recState' = "idle"
    /\ recOwner' = 0
    /\ isListening' = FALSE
    /\ cbCall' = [cb |-> recCb, kind |-> "end", arg |-> "", session |-> recOwner]
    /\ last' = Op("recEnd", recCb, "", FALSE)
    /\ UNCHANGED <<recCb, nListen, platStarts>>
    /\ UNCHANGED <<platVars, uiVars, platVoices, voicesHook, engVars, audioVars, constructed,
                   voices, voiceVars, isSpeakingFlag, speakVars>>

NextListen ==
    \/ StartListening
    \/ StopListening
    \/ \E ev \in ResultEvents : RecResult(ev)
    \/ \E code \in RecognitionErrors : RecError(code)
    \/ RecEnd

SpecListen == Init /\ [][NextListen]_vars

(***************************************************************************)
(* Properties of voice selection (checked under SpecVoice).                *)
(***************************************************************************)
SetVoiceReturned == last.op = "setVoice" /\ ~last.threw

\* indexes of the catalog voices whose language tag starts with the primary
\* subtag of the normalized language
LangMatches == {i \in 1..Len(voices) : StartsWith(voices[i].lang, PrimarySubtag(currentLang))}

GenderKeywords == IF preferredGender = "male" THEN maleKeywords ELSE femaleKeywords

GenderMatches == {i \in LangMatches : NameHas(GenderKeywords, voices[i])}

GenderQualityMatches == {i \in GenderMatches : NameHas(priorityKeywords, voices[i])}

NotFemaleMatches ==
    IF preferredGender = "male"
    THEN {i \in LangMatches : ~NameHas(femaleKeywords, voices[i])}
    ELSE {}

PriorityIndex ==
    IF GenderQualityMatches # {} THEN Min(GenderQualityMatches)
    ELSE IF GenderMatches # {} THEN Min(GenderMatches)
    ELSE IF NotFemaleMatches # {} THEN Min(NotFemaleMatches)
    ELSE Min(LangMatches)

\* C10: after setVoice(gender, lang) with at least one catalog voice in the
\* language, the selected voice is the first voice with a gender and a
\* quality keyword, else the first with a gender keyword, else (male only)
\* the first without a female keyword, else the first voice of the language;
\* setVoice('male', 'fr') on the catalog ['Google français'] selects it.
C10_SelectionPriority ==
    /\ (SetVoiceReturned /\ LangMatches # {}) => selectedVoice = << voices[PriorityIndex] >>
    /\ (SetVoiceReturned /\ preferredGender = "male" /\ preferredLang = "fr"
          /\ voices = << Voice("Google français", "fr-FR") >>)
       => selectedVoice = << Voice("Google français", "fr-FR") >>

\* a male request decided by the "no female keyword" step, which picks a
\* voice that is not the first of its language
C10_Witness ==
    /\ SetVoiceReturned
    /\ preferredGender = "male"
    /\ LangMatches # {}
    /\ GenderMatches = {}
    /\ NotFemaleMatches # {}
    /\ Min(NotFemaleMatches) # Min(LangMatches)
    /\ selectedVoice = << voices[Min(NotFemaleMatches)] >>


(***************************************************************************)
(* Properties of the recognition session (checked under SpecListen).       *)
(***************************************************************************)
\* C7: startListening() while isListening is a no-op: no platform start, the
\* installed callbacks stay, isListening stays true.
C7_ReentryGuard ==
    [][(isListening /\ nListen' # nListen)
         => (platStarts' = platStarts /\ recCb' = recCb /\ isListening'
               /\ recState' = recState /\ recOwner' = recOwner)]_vars

\* a startListening() call returned while the session of an earlier call is
\* listening
C7_Witness ==
    /\ last.op = "startListening"
    /\ isListening
    /\ recCb # 0
    /\ recCb < last.id
    /\ recState = "active"

\* C8 as claimed: after stopListening() has asked the platform to stop, the
\* controller is still Listening until the end or error event arrives.
C8_StopKeepsListening ==
    (last.op = "stopListening" /\ recState = "stopping") => isListening

\* C9: a recognition error event leaves the controller Idle and passes the
\* platform's reason code to onError; recognition.start() is called only
\* inside a startListening() call.
C9_ErrorToIdleNoRetry ==
    /\ [](last.op = "recError"
            => (~isListening /\ cbCall.kind = "error" /\ cbCall.cb = recCb
                  /\ cbCall.arg = last.arg))
    /\ [][platStarts' # platStarts => nListen' # nListen]_vars

\* an error event arrived while the controller was Listening
C9_Witness ==
    /\ last.op = "recError"
    /\ last.arg = "network"
    /\ cbCall = [cb |-> recCb, kind |-> "error", arg |-> "network", session |-> recCb]
    /\ ~isListening
    /\ recState = "failed"


(***************************************************************************)
(* Properties of speak / stopSpeaking / unlock (checked under Spec).       *)
(***************************************************************************)
\* C1 as claimed: local synthesis being active and remote TTS audio playing
\* are never both true.
C1_LocalRemoteExclusive == ~(LocalActive /\ RemotePlaying)

\* C2 as claimed: once a later speak() has begun, the onEnd of an earlier
\* call that had not fired yet never fires.
C2_NoOnEndAfterSupersede ==
    [][\A k \in 1..MaxSpeak :
         (k < nSpeak /\ onEndCount[k] = 0) => onEndCount'[k] = 0]_vars

\* C3 as claimed: after a later speak() has begun, no audio of an earlier
\* call plays and no utterance of an earlier call is in the engine queue.
C3_LastCallWins ==
    \A k \in 1..MaxSpeak :
        k < nSpeak =>
            /\ ~(AudioPlaying /\ audioSrc = BlobUrl(k))
            /\ \A i \in 1..Len(engQueue) : engQueue[i].call # k

\* C4 as claimed: from stopSpeaking() until the next speak(), the engine
\* holds no utterance and no remote audio plays.
C4_StopHaltsBothPaths == halted => (engQueue = << >> /\ ~RemotePlaying)

\* C5: right after speak() returns at most one of isSpeakingFlag and
\* isGoogleSpeaking is true; right after stopSpeaking() returns both are
\* false.
C5_FlagsAfterCalls ==
    /\ last.op = "speak" => ~(isSpeakingFlag /\ isGoogleSpeaking)
    /\ last.op = "stopSpeaking" => (~isSpeakingFlag /\ ~isGoogleSpeaking)

\* stopSpeaking() returned while the remote fetch of a speak() call, which
\* had set isGoogleSpeaking, was pending
C5_Witness ==
    /\ last.op = "stopSpeaking"
    /\ ~last.threw
    /\ \E k \in 1..MaxSpeak : calls[k].pc = "fetch"
    /\ ~isGoogleSpeaking

NothingSpoken ==
    /\ ~isGoogleSpeaking
    /\ ~isSpeakingFlag
    /\ engQueue = << >>
    /\ ~AudioPlaying

\* C6 as claimed: stopSpeaking() raises no error, leaves the catalog, the
\* selection, the languages, the gender, the pitch and isListening as they
\* are, and changes no controller field when nothing is being spoken.
C6_StopSpeakingFrame ==
    [][last'.op = "stopSpeaking"
         => /\ ~last'.threw
            /\ UNCHANGED <<voices, selectedVoice, currentLang, preferredGender,
                           preferredLang, defaultPitch, isListening>>
            /\ NothingSpoken => UNCHANGED ctrlVars]_vars

(***************************************************************************)
(* Properties of setVoice's post-state (checked under SpecVoice).          *)
(***************************************************************************)
\* C11 as claimed: when no catalog voice matches the primary subtag of the
\* normalized language, setVoice selects the first voice of the whole
\* catalog, and nothing only when the catalog is empty.
C11_WholeCatalogFallback ==
    (SetVoiceReturned /\ LangMatches = {})
        => selectedVoice = IF voices = << >> THEN << >> ELSE << voices[1] >>

\* C12 as claimed: after setVoice(gender, language) currentLang is the
\* normalized tag (the platform locale, or en-US when the platform has none,
\* for auto; the region-qualified tag of a short code of the table; the
\* argument itself otherwise), preferredGender the gender, preferredLang the
\* language as given and defaultPitch 0.85 for male, 1.15 otherwise.
C12_SetVoicePostState ==
    \A g \in Genders, l \in Languages :
        LET expected == IF l = "auto" THEN (IF navLang # "" THEN navLang ELSE "en-US")
                        ELSE IF l \in langMapKeys THEN langMap[l]
                        ELSE l
        IN  (last.op = "setVoice" /\ last.arg = SetVoiceArgs(g, l))
                => /\ currentLang = expected
                   /\ preferredGender = g
                   /\ preferredLang = l
                   /\ defaultPitch = (IF g = "male" THEN 85 ELSE 115)

\* C13 as claimed: setVoice raises no error, whatever the gender, the
\* language string and the catalog.
C13_SetVoiceNeverThrows == last.op = "setVoice" => ~last.threw

\* C14: a setVoice call that follows a setVoice call with the same arguments
\* changes none of the fields setVoice assigns, and a catalog refresh that
\* follows a refresh, over an unchanged platform voice list, changes no
\* controller field.
C14_Idempotent ==
    [][/\ (last.op = "setVoice" /\ last'.op = "setVoice" /\ last'.arg = last.arg)
            => UNCHANGED voiceVars
       /\ (last.op = "voiceschanged" /\ last'.op = "voiceschanged"
             /\ platVoices' = platVoices)
            => UNCHANGED ctrlVars]_vars

\* setVoice selected the second of two catalog voices: a repeated call has
\* to pass over the first voice again
C14_Witness ==
    /\ SetVoiceReturned
    /\ Len(voices) = 2
    /\ selectedVoice = << voices[2] >>
    /\ selectedVoice # << voices[1] >>

(***************************************************************************)
(* Properties of the dispatch of speak() (checked under SpecDispatch).     *)
(***************************************************************************)
InCatalog(sel, vs) == sel = << >> \/ \E i \in DOMAIN vs : vs[i] = sel[1]

\* C15: every step that assigns a present selectedVoice (setVoice, the
\* setVoice of a catalog refresh, the opportunistic selection of speak)
\* assigns a voice of the catalog the controller holds at that moment; and
\* after setVoice with a non-empty language-filtered catalog the selected
\* voice's language tag starts with the primary subtag of currentLang.
C15_SelectedFromCatalog ==
    /\ [][selectedVoice' # selectedVoice => InCatalog(selectedVoice', voices')]_vars
    /\ [](SetVoiceReturned => InCatalog(selectedVoice, voices))
    /\ []((SetVoiceReturned /\ LangMatches # {})
            => /\ selectedVoice # << >>
               /\ StartsWith(selectedVoice[1].lang, PrimarySubtag(currentLang)))

\* speak()'s remote attempt failed and its local path, finding no voice
\* selected and none for the language, took the first catalog voice
C15_Witness ==
    /\ last.op = "event"
    /\ voices # << >>
    /\ \E k \in 1..MaxSpeak :
          /\ calls[k].pc = "done"
          /\ engQueue # << >>
          /\ engQueue[1].call = k
          /\ ~\E i \in DOMAIN voices :
                StartsWith(voices[i].lang, PrimarySubtag(calls[k].lang))
    /\ selectedVoice = << voices[1] >>

\* the language a speak() call is to use: options.lang when given, the
\* controller's current language otherwise
EffectiveLang == IF last.arg # "" THEN last.arg ELSE currentLang

\* C16: a speak() call that reaches its dispatch uses the effective language
\* and goes to the remote path first (its fetch pending, nothing submitted
\* to the engine) exactly when the primary subtag of that language is ta or
\* no catalog voice has a language tag starting with it; otherwise it has
\* run the local path.
C16_FallbackDecision ==
    (last.op = "speak" /\ ~last.threw)
        => LET k == last.id
               base == PrimarySubtag(EffectiveLang)
               remoteFirst ==
                   \/ base = "ta"
                   \/ \A i \in DOMAIN voices : ~StartsWith(voices[i].lang, base)
           IN  /\ calls[k].lang = EffectiveLang
               /\ calls[k].pc = (IF remoteFirst THEN "fetch" ELSE "done")
               /\ remoteFirst => (engQueue = << >> /\ isGoogleSpeaking)
               /\ (last.arg = "ta") => calls[k].pc = "fetch"

\* speak(text, {lang: 'ta'}) with a Tamil voice in the catalog went remote
C16_Witness ==
    /\ last.op = "speak"
    /\ ~last.threw
    /\ last.arg = "ta"
    /\ \E i \in DOMAIN voices : StartsWith(voices[i].lang, "ta")
    /\ calls[last.id].pc = "fetch"

(***************************************************************************)
(* Properties of the remote attempt and of the local path.                 *)
(***************************************************************************)
\* the texts speak() submits for the sanitized text r: its sentences,
\* trimmed, without the empty ones
SpokenTexts(r) ==
    LET ss == SentencesOf[r]
        NonEmpty(t) == t # ""
    IN  SelectSeq([i \in 1..Len(ss) |-> Trim(ss[i])], NonEmpty)

\* the remote attempt of call k ends in this step otherwise than by the
\* audio playing to its end
RemoteFailureOf(k) ==
    /\ calls[k].pc \in {"fetch", "blob", "audio"}
    /\ calls'[k].pc = "done"
    /\ ~(audioTime = "start" /\ audioTime' = "end")

\* C17 (checked under Spec): when the remote attempt of a call fails (fetch
\* or payload, play() rejection, audio error), the handling step raises
\* nothing, leaves isGoogleSpeaking false and appends to the engine queue the
\* utterances of that call's sanitized text, in its language.
C17_RemoteFailureFallsBack ==
    [][\A k \in 1..MaxSpeak :
         RemoteFailureOf(k)
            => LET texts == SpokenTexts(calls[k].text)
                   n == Len(engQueue)
               IN  /\ ~last'.threw
                   /\ ~isGoogleSpeaking'
                   /\ Len(engQueue') = n + Len(texts)
                   /\ SubSeq(engQueue', 1, n) = engQueue
                   /\ \A i \in 1..Len(texts) :
                         /\ engQueue'[n + i].call = k
                         /\ engQueue'[n + i].text = texts[i]
                         /\ engQueue'[n + i].lang = calls[k].lang]_vars

\* the first utterance of a call waits in the engine after the call's
\* onStart has fired: the call went remote, failed and fell through
C17_Witness ==
    /\ engQueue # << >>
    /\ ~engSpeaking
    /\ ~isGoogleSpeaking
    /\ LET k == engQueue[1].call
       IN  /\ engQueue[1].onstart
           /\ onStartCount[k] >= 1
           /\ calls[k].pc = "done"

\* C18 (checked under SpecDispatch, where the engine holds what it is
\* given): the utterances of a call stand in the engine queue in sentence
\* order, one for each sentence, onStart attached to the first only and
\* onEnd to the last only.
C18_LocalPathCallbacks ==
    \A k \in 1..MaxSpeak :
        LET idx == {i \in DOMAIN engQueue : engQueue[i].call = k}
            texts == SpokenTexts(calls[k].text)
            n == Len(texts)
        IN  idx # {}
              => LET lo == Min(idx)
                 IN  /\ idx = lo..(lo + n - 1)
                     /\ \A j \in 1..n :
                           /\ engQueue[lo + j - 1].text = texts[j]
                           /\ engQueue[lo + j - 1].onstart = (j = 1 /\ calls[k].onStart)
                           /\ engQueue[lo + j - 1].onend = (j = n /\ calls[k].onEnd)

\* a call with three sentences and both callbacks is in the queue
C18_Witness ==
    /\ Len(engQueue) = 3
    /\ engQueue[1].call = engQueue[3].call
    /\ engQueue[1].onstart /\ ~engQueue[1].onend
    /\ ~engQueue[2].onstart /\ ~engQueue[2].onend
    /\ engQueue[3].onend /\ ~engQueue[3].onstart
    /\ <<engQueue[1].text, engQueue[2].text, engQueue[3].text>> = <<"One.", "Two!", "Three">>

\* nothing is pending: no fetch or payload awaited, no play() promise to
\* settle, no audio loading or playing, the engine queue empty.  The network,
\* the audio element and the engine have delivered all their events.
Quiescent ==
    /\ \A k \in 1..MaxSpeak : calls[k].pc \notin {"fetch", "blob"}
    /\ playPromises = {}
    /\ ~AudioPlaying
    /\ audioLoad # "loading"
    /\ engQueue = << >>

\* C19 as claimed, in the form a finite run refutes: once everything pending
\* has been delivered, the latest speak() call, if it got past its first
\* statement, asked for onEnd and was not followed by stopSpeaking(), has had
\* its onEnd invoked.
C19_CompletionSignalled ==
    (Quiescent /\ nSpeak >= 1 /\ ~halted)
        => LET c == calls[nSpeak]
           IN  (c.pc # "threw" /\ c.onEnd) => onEndCount[nSpeak] >= 1

\* the voice a speak() call without an override would hand to the engine
VoiceWithoutOverride ==
    OpportunisticVoice(selectedVoice, voices, PrimarySubtag(currentLang))

\* call k runs the local path in this step, in a language other than the
\* controller's current one
OverrideLocalPath(k) ==
    /\ calls[k].pc # "done"
    /\ calls'[k].pc = "done"
    /\ calls'[k].lang # currentLang

\* C20 as claimed: a speak() call with a language override leaves
\* currentLang, preferredLang, preferredGender and defaultPitch as they are,
\* and leaves the voice that a speak() without an override would use as it
\* is.
C20_OverrideScopedToCall ==
    [][(\E k \in 1..MaxSpeak : OverrideLocalPath(k))
         => /\ UNCHANGED <<currentLang, preferredLang, preferredGender, defaultPitch>>
            /\ VoiceWithoutOverride' = VoiceWithoutOverride]_vars


\* ---------------------------------------------------------------------------
\* Missing platform capabilities (voice.js:5-49, 218-261, 263-335)
\* ---------------------------------------------------------------------------

\* The operations of a capability the platform lacks.
MissingCapabilityOp ==
    \/ last.op \in {"speak", "stopSpeaking"} /\ ~hasSynthesis
    \/ last.op \in {"startListening", "stopListening"} /\ ~hasRecognition

\* C21: constructing the controller never raises, whichever capability is
\* absent, and afterwards every operation of the missing capability returns
\* without raising.
C21_DegradedNeverThrows ==
    (last.op = "new" \/ MissingCapabilityOp) => ~last.threw


\* C22: after construction and after every catalog-change notification the
\* controller's catalog equals the platform's current voice list, also on a
\* platform without speech recognition.
C22_CatalogTracksPlatform ==
    (constructed /\ last.op \in {"new", "voiceschanged"}) => voices = platVoices


\* ---------------------------------------------------------------------------
\* unlock() (voice.js:149-164)
\* ---------------------------------------------------------------------------

\* C23: unlock() never raises to its caller and touches the audio element
\* only: whatever the state and however often it is called, selectedVoice, the
\* catalog, the languages, isListening and the speaking flags are what they
\* were before the call, and no callback of a speak() call is invoked.
C23_UnlockKeepsController ==
    [][last'.op = "unlock" =>
          /\ ~last'.threw
          /\ UNCHANGED <<ctrlVars, calls, onStartCount, onEndCount>>]_vars

\* a second unlock() in a row (the element still holds the silent clip of the
\* first) while a remote attempt is in flight and a voice is selected
C23_Witness ==
    /\ last.op = "unlock"
    /\ isGoogleSpeaking
    /\ selectedVoice # << >>
    /\ \E p \in playPromises : p.kind = "unlock" /\ p.orig = SilentSrc


\* ---------------------------------------------------------------------------
\* Pitch and rate of the local path (voice.js:311-321)
\* ---------------------------------------------------------------------------

FemaleCatalog == <<Voice("Google UK English Female", "en-GB"), Voice("Samantha", "en-US")>>
NeutralCatalog == <<Voice("Alex", "en-US"), Voice("Samantha", "en-US")>>

\* catalogs of English voices: one with a male-named voice, one with
\* female-named voices only, one whose first voice carries no gender keyword
PitchCatalogs == { EnglishCatalog, FemaleCatalog, NeutralCatalog }

PitchSettings == { <<"male", "en">>, <<"female", "en">> }

\* speak() with and without options.pitch / options.rate
PitchInputs ==
    { [text |-> "Hi.", opt |-> Options("en", 120, 110, TRUE)],
      [text |-> "Hi.", opt |-> Options("", 0, 0, TRUE)] }

InitPitch == InitWith(PitchCatalogs, {"fr-FR"})

NextPitch ==
    \/ \E gl \in PitchSettings : SetVoice(gl[1], gl[2])
    \/ \E list \in PitchCatalogs : VoicesChanged(list)
    \/ \E in \in PitchInputs : Speak(in.text, in.opt)

SpecPitch == InitPitch /\ [][NextPitch]_vars

\* C24: every utterance submitted on the local path has pitch 0.7 and rate
\* 0.95 exactly when preferredGender is male, a voice is selected and the
\* voice's name carries none of setVoice's male keywords (so a name marked
\* "Female" does not count as male); otherwise its pitch is options.pitch,
\* else defaultPitch, and its rate is options.rate, else 0.9.
C24_PitchShiftHeuristic ==
    [][\A i \in DOMAIN engQueue' :
          LET u == engQueue'[i]
              submitted == \A j \in DOMAIN engQueue : engQueue[j] # u
              shift == /\ preferredGender' = "male"
                       /\ u.voice # << >>
                       /\ ~NameHas(maleKeywords, u.voice[1])
          IN  submitted =>
                IF shift
                THEN u.pitch = 70 /\ u.rate = 95
                ELSE /\ u.pitch = FirstNonZero(calls'[u.call].pitch, defaultPitch', 100)
                     /\ u.rate = FirstNonZero(calls'[u.call].rate, 90, 90)]_vars


\* ---------------------------------------------------------------------------
\* Opportunistic voice selection (voice.js:297-301)
\* ---------------------------------------------------------------------------

\* C25: when a speak() call runs the local path with no selected voice and a
\* non-empty catalog, selectedVoice becomes the first catalog voice whose
\* language tag starts with the primary subtag of the call's language, else
\* the first catalog entry; with a voice already selected or an empty catalog
\* selectedVoice stays as it is.
C25_OpportunisticSelection ==
    [][\A k \in 1..MaxSpeak :
          (calls[k].pc # "done" /\ calls'[k].pc = "done") =>
             LET base == PrimarySubtag(calls'[k].lang)
                 idx == {i \in DOMAIN voices : StartsWith(voices[i].lang, base)}
             IN  selectedVoice' =
                    IF selectedVoice = << >> /\ voices # << >>
                    THEN (IF idx # {} THEN << voices[Min(idx)] >> ELSE << voices[1] >>)
                    ELSE selectedVoice]_vars

\* speak() in French on a catalog whose second voice is the French one, no
\* voice selected since construction: the call selected the second voice
C25_Witness ==
    /\ last.op = "speak"
    /\ last.arg = "fr"
    /\ preferredLang = "en-US"
    /\ voices = TamilCatalog
    /\ calls[last.id].pc = "done"
    /\ selectedVoice = << TamilCatalog[2] >>


\* ---------------------------------------------------------------------------
\* Sanitizer and sentence split (voice.js:270-278, 303-307)
\* ---------------------------------------------------------------------------

InitSanitize == InitWith({EnglishCatalog}, {"fr-FR"})

\* speak(text, {lang: 'en', ...}) for every text of SanitizeTexts
NextSanitize == \E t \in SanitizeTexts : Speak(t, Options("en", 0, 0, TRUE))

SpecSanitize == InitSanitize /\ [][NextSanitize]_vars

\* C26: sanitizing an already sanitized text changes nothing: for the
\* readableText of every speak() call, sanitize(readableText) = readableText.
C26_SanitizeIdempotent ==
    \A k \in 1..MaxSpeak :
        calls[k].pc # "none" => Sanitize(calls[k].text) = calls[k].text


\* Backtick delimiters properly paired, reading left to right: a fence opens
\* a block that a later fence closes; outside blocks a backtick opens a span
\* with non-empty content that the next backtick closes.
RECURSIVE BackticksPaired(_, _)
BackticksPaired(s, i) ==
    IF i > Len(s) THEN TRUE
    ELSE IF StartsAt(s, i, Fence)
         THEN LET close == IndexFrom(s, Fence, i + 3)
              IN  close # 0 /\ BackticksPaired(s, close + 3)
    ELSE IF CharAt(s, i) = Backtick
         THEN LET close == IndexFrom(s, Backtick, i + 1)
              IN  close >= i + 2 /\ ~StartsAt(s, close, Fence)
                  /\ BackticksPaired(s, close + 1)
    ELSE BackticksPaired(s, i + 1)

\* C27: for a text whose backtick delimiters are properly paired the
\* readableText contains no backtick (hence no fence); a fenced block is read
\* as "Here is the <lang> code. End of code." without its body, the tag
\* omitted when absent, and an inline span as "code <content>".
C27_CodeNeverRaw ==
    \A k \in 1..MaxSpeak :
        LET c == calls[k]
        IN  (c.pc # "none" /\ BackticksPaired(c.input, 1)) =>
               /\ ~Includes(c.text, Backtick)
               /\ c.input = "´´´js\nx = 1\n´´´" => c.text = "Here is the js code. End of code."
               /\ c.input = "´´´\nx\n´´´" => c.text = "Here is the code. End of code."
               /\ c.input = "Use ´f()´ now." => c.text = "Use code f() now."
               /\ c.input = "´´´py\na´b\n´´´ and ´c´"
                     => c.text = "Here is the py code. End of code. and code c"

\* a fenced block with a language tag and an inline span have been sanitized
C27_Witness ==
    /\ nSpeak = 2
    /\ calls[1].input = "´´´js\nx = 1\n´´´"
    /\ calls[1].text = "Here is the js code. End of code."
    /\ calls[2].input = "Use ´f()´ now."
    /\ calls[2].text = "Use code f() now."


\* the non-whitespace characters of s, in order
RECURSIVE NonSpace(_)
NonSpace(s) ==
    IF s = "" THEN ""
    ELSE (IF IsSpace(CharAt(s, 1)) THEN "" ELSE CharAt(s, 1)) \o NonSpace(SubSeq(s, 2, Len(s)))

\* the texts of the utterances q, concatenated
RECURSIVE SubmittedText(_)
SubmittedText(q) == IF q = << >> THEN "" ELSE q[1].text \o SubmittedText(Tail(q))

\* C28: the sentences a speak() call submits on the local path are non-empty,
\* each but the last ends with a terminator, none continues past a run of
\* terminators, and together, in order, they contain every non-whitespace
\* character of the sanitized text.
C28_SegmentationLossless ==
    (last.op = "speak" /\ ~last.threw /\ calls[last.id].pc = "done") =>
        /\ \A i \in DOMAIN engQueue :
              LET t == engQueue[i].text
              IN  /\ Trim(t) # ""
                  /\ i < Len(engQueue) => IsTerminator(CharAt(t, Len(t)))
                  /\ \A j \in 1..(Len(t) - 1) :
                        IsTerminator(CharAt(t, j)) => IsTerminator(CharAt(t, j + 1))
        /\ NonSpace(SubmittedText(engQueue)) = NonSpace(calls[last.id].text)


\* ---------------------------------------------------------------------------
\* Callbacks and the remote-speaking flag (voice.js:166-216, 285-295, 323-335)
\* ---------------------------------------------------------------------------

\* C29: options.onStart is invoked at most once per speak() call, on every
\* path, the fall-through from a failed remote attempt included.
C29_OnStartAtMostOnce == \A k \in 1..MaxSpeak : onStartCount[k] <= 1


\* the remote TTS fetch of the current speak() call is pending; a call that
\* stopSpeaking() has ended is no longer current
CurrentFetchPending == nSpeak > 0 /\ ~halted /\ calls[nSpeak].pc \in {"fetch", "blob"}

\* C30: isGoogleSpeaking is true exactly when the audio element is playing
\* remote TTS audio or the remote fetch of the current speak() call is
\* pending.  The time between the fetch and the start of playback (the blob
\* URL assigned, play() not yet resolved) is left open.
C30_FlagTracksRemote ==
    LET starting == \E k \in 1..MaxSpeak : calls[k].pc = "audio"
    IN  /\ (RemotePlaying \/ CurrentFetchPending) => isGoogleSpeaking
        /\ (isGoogleSpeaking /\ ~starting) => (RemotePlaying \/ CurrentFetchPending)


\* ---------------------------------------------------------------------------
\* unlock() against speech in progress (voice.js:149-164, 179-210)
\* ---------------------------------------------------------------------------

\* C31: unlock() called while remote TTS audio is playing leaves that
\* playback running on its source and fires no onEnd; and an unlock() whose
\* play() is still pending never finds the source of a later remote playback
\* on the element: while it is pending the element holds the silent clip.
C31_UnlockLeavesPlayback ==
    /\ [][(last'.op = "unlock" /\ RemotePlaying)
            => (RemotePlaying' /\ audioSrc' = audioSrc /\ onEndCount' = onEndCount)]_vars
    /\ [](\A p \in playPromises :
             (p.kind = "unlock" /\ p.st = "pending") => audioSrc = SilentSrc)


\* ---------------------------------------------------------------------------
\* Recognition callbacks and their session (voice.js:218-261)
\* ---------------------------------------------------------------------------

\* C32: a callback passed to a startListening() call is invoked only for an
\* event of the platform capture session that this call started.
C32_CallbacksOfOwnSession ==
    cbCall.kind # "none" => cbCall.cb = cbCall.session


(***************************************************************************)
(* The chat UI's voice input (astra_script.js 611-647): toggleVoiceInput   *)
(* and the three callbacks it passes to startListening.  Voice output is   *)
(* toggled off, so sendMessage ends without a speak() call.                *)
(***************************************************************************)
\* a click on the microphone button
ToggleVoiceInput ==
    /\ constructed
    /\ cbCall' = NoCallback
    /\ IF isRecording
       THEN \* stopListening(); return
            /\ IF hasRecognition /\ isListening
               THEN /\ recState' = IF recState = "active" THEN "stopping" ELSE recState
                    /\ isListening' = FALSE
               ELSE UNCHANGED <<recState, isListening>>
            /\ last' = Op("toggleVoiceInput", 0, "stop", FALSE)
            /\ UNCHANGED <<isRecording, recOwner, recCb, nListen, platStarts>>
       ELSE \* isRecording = true; startListening(onResult, onEnd, onError)
            /\ nListen < MaxListen
            /\ isRecording' = TRUE
            /\ nListen' = nListen + 1
            /\ last' = Op("toggleVoiceInput", nListen + 1, "start", FALSE)
            /\ IF ListenGuard
               THEN /\ recCb' = nListen + 1
                    /\ platStarts' = platStarts + 1
                    /\ IF recState = "idle"
                       THEN /\ recState' = "active"
                            /\ recOwner' = nListen + 1
                            /\ isListening' = TRUE
                       ELSE \* recognition.start() throws InvalidStateError, caught
                            /\ isListening' = FALSE
                            /\ UNCHANGED <<recState, recOwner>>
               ELSE UNCHANGED <<recCb, platStarts, recState, recOwner, isListening>>
    /\ UNCHANGED <<platVars, platVoices, voicesHook, engVars, audioVars, constructed,
                   voices, voiceVars, isSpeakingFlag, speakVars>>

\* recognition.onresult reaching the UI's onResult: a final transcript goes
\* to the input box, then unlock(), stopListening() and sendMessage(), which
\* calls unlock() again
VoiceInputResult(ev, allowed) ==
    /\ recState \in {"active", "stopping"}
    /\ cbCall' = [cb |-> recCb, kind |-> "result", arg |-> OnResultArgs(ev),
                  session |-> recOwner]
    /\ last' = Op("recResult", recCb, "", FALSE)
    /\ IF Transcript(ev, ev.resultIndex, TRUE) # ""
       THEN /\ audioSrc' = SilentSrc
            /\ audioLoad' = "loading"
            /\ audioTime' = "start"
            /\ audioPaused' = ~allowed
            /\ playPromises' = RejectPending(playPromises)
                 \cup (IF allowed THEN {PlayPromise("unlock", 0, SilentSrc)} ELSE {})
            /\ IF isListening
               THEN /\ recState' = IF recState = "active" THEN "stopping" ELSE recState
                    /\ isListening' = FALSE
               ELSE UNCHANGED <<recState, isListening>>
       ELSE UNCHANGED <<audioSrc, audioLoad, audioTime, audioPaused, playPromises,
                        recState, isListening>>
    /\ UNCHANGED <<recOwner, recCb, nListen, platStarts, isRecording, audioHandler>>
    /\ UNCHANGED <<platVars, platVoices, voicesHook, engVars, constructed,
                   voices, voiceVars, isSpeakingFlag, speakVars>>

\* recognition.onerror reaching the UI's onError
VoiceInputError(code) ==
    /\ recState \in {"active", "stopping"}
    /\ recState' = "failed"
    /\ isListening' = FALSE
    /\ isRecording' = FALSE
    /\ cbCall' = [cb |-> recCb, kind |-> "error", arg |-> code, session |-> recOwner]
    /\ last' = Op("recError", recCb, code, FALSE)
    /\ UNCHANGED <<recOwner, recCb, nListen, platStarts>>
    /\ UNCHANGED <<platVars, platVoices, voicesHook, engVars, audioVars, constructed,
                   voices, voiceVars, isSpeakingFlag, speakVars>>

\* recognition.onend reaching the UI's onEnd
VoiceInputEnd ==
    /\ recState \in {"active", "stopping", "failed"}
    /\ recState' = "idle"
    /\ recOwner' = 0
    /\ isListening' = FALSE
    /\ isRecording' = FALSE
    /\ cbCall' = [cb |-> recCb, kind |-> "end", arg |-> "", session |-> recOwner]
    /\ last' = Op("recEnd", recCb, "", FALSE)
    /\ UNCHANGED <<recCb, nListen, platStarts>>
    /\ UNCHANGED <<platVars, platVoices, voicesHook, engVars, audioVars, constructed,
                   voices, voiceVars, isSpeakingFlag, speakVars>>

NextRecording ==
    \/ ToggleVoiceInput
    \/ \E ev \in ResultEvents, allowed \in BOOLEAN : VoiceInputResult(ev, allowed)
    \/ \E code \in RecognitionErrors : VoiceInputError(code)
    \/ VoiceInputEnd
    \/ \E p \in playPromises : PlayResolve(p)

\* With continuous = false (voice.js 32) the platform ends every session on
\* its own, and ends it after stop(): the end event is always delivered.
SpecRecording == Init /\ [][NextRecording]_vars /\ WF_vars(VoiceInputEnd)

\* C33: whenever the chat UI's isRecording is true it eventually returns to
\* false, so that a later click can start a new capture.
C33_RecordingNotStuck == isRecording ~> ~isRecording


\* ---------------------------------------------------------------------------
\* The language of speak() against the language of setVoice
\* (voice.js:51-69, 263-290; astra_script.js:601, 665-716)
\* ---------------------------------------------------------------------------

\* values of the chat UI's language select, passed as they are to setVoice
\* and, as options.lang, to speak
LanguageValues == {"en", "ta", "auto"}

InitLanguage == InitWith(DispatchCatalogs, NavigatorLanguages)

NextLanguage ==
    \/ \E g \in Genders, l \in LanguageValues : SetVoice(g, l)
    \/ \E l \in LanguageValues : Speak("Hi.", Options(l, 0, 0, TRUE))

SpecLanguage == InitLanguage /\ [][NextLanguage]_vars

\* C34: a speak() call whose options.lang is the language value last passed
\* to setVoice decides between the remote and the local path on the primary
\* subtag of the normalized currentLang, and so takes the path of a speak()
\* call without override.
C34_SpeakAgreesWithSetVoice ==
    (last.op = "speak" /\ ~last.threw /\ last.arg = preferredLang) =>
        LET c == calls[last.id]
            base == PrimarySubtag(currentLang)
        IN  /\ PrimarySubtag(c.lang) = base
            /\ (c.pc = "fetch") = (base = "ta" \/ \A i \in DOMAIN voices :
                                                    ~StartsWith(voices[i].lang, base))


\* ---------------------------------------------------------------------------
\* Catalog change and the selected voice (voice.js:43-49, 86-109)
\* ---------------------------------------------------------------------------

\* C35: after a catalog-change notification has been processed selectedVoice
\* is absent or an element of the new catalog, also when the new catalog is
\* empty or no longer lists the voice selected before.
C35_NoStaleVoice ==
    last.op = "voiceschanged" =>
        \/ selectedVoice = << >>
        \/ \E i \in DOMAIN platVoices : platVoices[i] = selectedVoice[1]


\* ---------------------------------------------------------------------------
\* Voice and language of the utterances (voice.js:266-283, 297-310)
\* ---------------------------------------------------------------------------

\* C36: whenever the catalog holds a voice whose language tag starts with the
\* primary subtag of a call's effective language, every utterance the call
\* submits carries a voice whose language tag starts with that subtag.
C36_VoiceMatchesLanguage ==
    [][\A i \in DOMAIN engQueue' :
          LET u == engQueue'[i]
              base == PrimarySubtag(u.lang)
              submitted == \A j \in DOMAIN engQueue : engQueue[j] # u
          IN  (submitted /\ \E n \in DOMAIN voices : StartsWith(voices[n].lang, base))
                 => (u.voice # << >> /\ StartsWith(u.voice[1].lang, base))]_vars

====
